---------------------------- MODULE Spec2Model ----------------------------
(***************************************************************************)
(* Audio-Meter-Monitor: the debounced detection loop of the App component  *)
(* (five builds of it live in the repository) together with the reference  *)
(* capture, the monitoring toggle and the configuration handlers.          *)
(*                                                                         *)
(* Numbers.  Distances, similarities and thresholds are hundredths         *)
(* (0.50 is 50).  cooldownSeconds is kept in tenths of a second (1.0 s is  *)
(* 10) and converted to milliseconds as the code does (x * 1000).  Times   *)
(* are milliseconds of Date.now().                                         *)
(*                                                                         *)
(* React.  `settings`, `isMonitoring`, ... are the component's state.  The *)
(* tick callback is a closure created by the audio-loop effect: it reads   *)
(* the values the effect captured (`closure`), not the state.  A setState  *)
(* made from a click or a slider (a discrete event) is rendered and its    *)
(* effects are flushed before the handler's task ends; a setState made     *)
(* from an animation frame, a timer or a promise continuation is rendered  *)
(* later, and the frame callback that is already scheduled may run first   *)
(* (action Commit is that later render with its effect cleanup and         *)
(* re-run).                                                                *)
(***************************************************************************)
EXTENDS Integers, Sequences, FiniteSets, TLC

\* ------------------------------------------------------------- bounds

\* Date.now() when the page is loaded (an epoch time, far above any cooldown).
StartTime == 20000

\* The model stops the clock this many animation frames after the page load.
MaxFrames == 7

\* Milliseconds between two animation frames of the model.
FrameMs == 200

\* History records kept by the model (the builds keep 100, 500 or 1000).
HistoryCap == 2

\* Clicks and slider moves the user makes in one run of the model.
MaxUserActions == 4

\* Milliseconds the clock may advance between the tick's Date.now() and the
\* one handleDetection reads for the record.
MaxClockSkew == 1

\* ------------------------------------------------------------ variants

AppV1    == "App.tsx#1"      \* src/App.tsx 1-388   (audio_pulse)
AppV2    == "App.tsx#2"      \* src/App.tsx 390-954 (gaspulse)
IndexTsx == "index.tsx"      \* src/index.tsx
IndexJs  == "index.js"       \* src/index.js        (v8)
Part001  == "part_001"       \* src/unnamed/part_001 (v4, similarity)

Variants == {AppV1, AppV2, IndexTsx, IndexJs, Part001}

NoRef == "null"

\* Fingerprints a frame of the analyser can yield.  NaNVec is what the
\* linear getFingerprint returns for an empty frame (0/0 in every band),
\* ZeroVec what the mel getFingerprint returns for it.
LiveFingerprints == {"fpA", "fpB"}
NaNVec == "fpNaN"
ZeroVec == "fpZero"

\* Values compare() can return for a live frame against a stored reference.
Distances == {10, 50, 90}

\* The IEEE not-a-number, which fails every comparison.
NaN == 0 - 1


\* ------------------------------------------------- per-build parameters

\* The slider ranges of the threshold input, in hundredths.
ThresholdMin(v) ==
  CASE v = AppV1 -> 5 [] v = AppV2 -> 5 [] v = IndexTsx -> 5
    [] v = IndexJs -> 1 [] v = Part001 -> 50

ThresholdMax(v) ==
  CASE v = AppV1 -> 50 [] v = AppV2 -> 75 [] v = IndexTsx -> 50
    [] v = IndexJs -> 99 [] v = Part001 -> 99

\* The settings useState starts from when localStorage holds nothing.
DefaultSettings(v) ==
  CASE v = AppV1 ->
         [threshold |-> 20, cooldownSeconds |-> 15, referenceFingerprint |-> NoRef]
    [] v = AppV2 ->
         [threshold |-> 25, cooldownSeconds |-> 20, referenceFingerprint |-> NoRef]
    [] v = IndexTsx ->
         [threshold |-> 15, cooldownSeconds |-> 12, referenceFingerprint |-> NoRef]
    [] v = IndexJs ->
         [threshold |-> 15, cooldownSeconds |-> 15, referenceFingerprint |-> NoRef]
    [] v = Part001 ->
         [threshold |-> 88, cooldownSeconds |-> 10, referenceFingerprint |-> NoRef]

\* Thresholds the slider of build v is moved to: a sample of its range, the
\* default and 0.50.
ThresholdChoices(v) ==
  {t \in {DefaultSettings(v).threshold, 50} :
     ThresholdMin(v) <= t /\ t <= ThresholdMax(v)}

\* part_001 has no cooldown slider; every other build has one whose range
\* holds 1.0 s.  The slider is moved between that value and the default.
HasCooldownSlider(v) == v # Part001

CooldownChoices(v) ==
  IF HasCooldownSlider(v) THEN {DefaultSettings(v).cooldownSeconds, 10} ELSE {}

\* Only App.tsx#2 renders the button that deletes the reference.
HasClearReference(v) == v = AppV2

\* settings.cooldownSeconds * 1000, with the seconds kept in tenths.
CooldownMs(cooldownSeconds) == (cooldownSeconds * 1000) \div 10

\* A loop whose value without reference is a perfect match.
NoReferenceMatches(v) == 0

\* The value the loop compares with the threshold when no reference is
\* stored: `let distance = 1.0` (`let sim = 0` in part_001).
NoReferenceValue(v) == IF v = Part001 THEN 0 ELSE 100

\* A match test that is strict in every build.
MatchesStrict(v, value, threshold) ==
  CASE v \in {AppV1, AppV2, IndexTsx} -> value < threshold
    [] v = IndexJs -> value > threshold
    [] v = Part001 -> value > threshold

\* The match test of the loop's if-statement.
Matches(v, value, threshold) ==
  CASE v \in {AppV1, AppV2, IndexTsx} -> value <= threshold
    [] v = IndexJs -> value > threshold
    [] v = Part001 -> value >= threshold

\* A cooldown test that passes at expiry.
CooldownElapsedAtExpiry(t, last, cooldownSeconds) ==
  (t - last) >= CooldownMs(cooldownSeconds)

\* The cooldown test of the loop's if-statement.
CooldownElapsed(t, last, cooldownSeconds) ==
  (t - last) > CooldownMs(cooldownSeconds)

\* getFingerprint(new Float32Array(0)): step is 0, so the linear builds
\* divide 0 by 0 in every band; the mel build of App.tsx#2 sums nothing.
EmptyFrameFingerprint(v) == IF v = AppV2 THEN ZeroVec ELSE NaNVec

\* A history that is never cut.
PrependUncapped(record, prev) == <<record>> \o prev

\* [record, ...prev].slice(0, cap)
Prepend(record, prev) ==
  LET all == <<record>> \o prev
  IN  IF Len(all) <= HistoryCap THEN all ELSE SubSeq(all, 1, HistoryCap)

\* The record handleDetection / handleMatch / loop builds: its timestamp and
\* its distance (similarity in part_001).  The random id, and the threshold
\* copy App.tsx adds, are written and only ever displayed.
DetectionRecord(stamp, value) == [timestamp |-> stamp, distance |-> value]

\* The clock readings the record's timestamp can take: only index.tsx reuses
\* the tick's `now`, the other builds call Date.now() again and read the same
\* millisecond or a later one (the latest stands for every later reading:
\* nothing reads the timestamp but the display).
RecordStamps(v, t) == IF v = IndexTsx THEN {t} ELSE {t, t + MaxClockSkew}

\* ---------------------------------------------------------------- state

VARIABLES
  variant,            \* which build of the App runs
  now,                \* Date.now()
  engine,             \* audioEngineRef.current: "none" (null), "pending"
                      \*   (init() awaits getUserMedia), "uninit" (an engine
                      \*   without analyser), "ready" (analyser connected)
  awaiter,            \* the handler suspended on `await init()`
  isMonitoring,       \* useState isMonitoring / isLive
  isRecording,        \* useState isRecordingReference / isSampling
  settings,           \* useState settings / config
  lastDetectionTime,  \* useState lastDetectionTime / lastMatchAt
  history,            \* useState history, newest first
  closure,            \* the state values the scheduled tick closure captured
  loop,               \* a tick callback is scheduled with requestAnimationFrame
  refFresh,           \* the reference array was replaced since the effect ran
  staleTick,          \* the frame callback has run once while a render that
                      \*   re-runs the effect was outstanding
  timers,             \* pending capture timers (setTimeout), oldest first
  clicks,             \* user actions made so far (bounds the run)
  cooldownMoved,      \* the cooldown setting changed since the page load
                      \*   (observer)
  stream,             \* how far the run's ticks follow StreamScenario, and
                      \*   which of them emitted (observer)
  wakeLockApi,        \* 'wakeLock' in navigator
  wakeLock,           \* useState wakeLock holds a sentinel (not null)
  sentinels,          \* the page's wake-lock requests: in flight, granted
                      \*   and not released, releases in flight; and
                      \*   useState wakeLockSupported of App.tsx#2
  deleteStep,         \* useState deleteStep of index.js, the value the
                      \*   rendered handler sees, and its reset timer
  webhookUrl,         \* settings.haWebhookUrl / config.webhookUrl
  posts,              \* webhook requests (fetch) in flight
  decoding,           \* uploads whose decodeAudioData is pending, oldest
                      \*   first
  ev                  \* what the last step did (observer, not program state)

vars == <<variant, now, engine, awaiter, isMonitoring, isRecording,
          settings, lastDetectionTime, history, closure, loop, refFresh,
          staleTick, timers, clicks, cooldownMoved, stream, wakeLockApi,
          wakeLock, sentinels, deleteStep, webhookUrl, posts, decoding, ev>>

Quiet == [op |-> "none"]

\* The values one render of the component hands to the effect's closure.
Snapshot(mon, rec, st, last) ==
  [isMonitoring |-> mon, isRecording |-> rec, settings |-> st,
   lastDetectionTime |-> last]

\* The effect's dependency array, compared with the values the effect last
\* ran with (Object.is: a replaced fingerprint array always differs).
DepsChanged(v, c, s, fresh) ==
  \/ c.isMonitoring # s.isMonitoring
  \/ c.lastDetectionTime # s.lastDetectionTime
  \/ fresh
  \/ c.settings.referenceFingerprint # s.settings.referenceFingerprint
  \/ c.settings.threshold # s.settings.threshold
  \/ v # AppV1 /\ c.settings.cooldownSeconds # s.settings.cooldownSeconds
  \/ v = AppV2 /\ c.isRecording # s.isRecording

\* An effect that schedules the tick whatever the flags are.
LoopAlways(v, s) == TRUE

\* The effect body: `if (isMonitoring [|| isRecordingReference]) rAF(tick)`.
LoopWanted(v, s) ==
  s.isMonitoring \/ (v = AppV2 /\ s.isRecording)

\* React renders state s; when a dependency changed, the old effect's cleanup
\* cancels the scheduled frame and the effect runs again with s.
RunEffects(s, fresh) ==
  IF DepsChanged(variant, closure, s, fresh)
    THEN /\ closure' = s
         /\ loop' = LoopWanted(variant, s)
         /\ refFresh' = FALSE
         /\ staleTick' = FALSE
    ELSE /\ UNCHANGED <<closure, loop>>
         /\ refFresh' = fresh
         /\ staleTick' = FALSE

\* The values the next render hands to the effect.
Current == Snapshot(isMonitoring, isRecording, settings, lastDetectionTime)

\* A setState made outside a discrete event waits for its render, and that
\* render will run the audio-loop effect again.  React renders it in a task
\* of its own: the frame callback that is already scheduled may run before
\* that task, the one after it may not.
RenderOutstanding == DepsChanged(variant, closure, Current, refFresh)

\* No handler is suspended on `await init()`.
NoAwaiter == [who |-> "none"]

\* No wake-lock request was made yet; wakeLockSupported starts true.
NoSentinels ==
  [requesting |-> 0, held |-> 0, releasing |-> 0, supported |-> TRUE]

\* deleteStep 0 (normal), rendered, no reset timer pending (timer holds the
\* delay of the pending setTimeout, 0 when there is none).
NormalStep == [state |-> 0, rendered |-> 0, timer |-> 0]

\* The webhook field as the defaults have it: the empty string.
NoUrl == ""

\* The builds that post a detection to a webhook.
HasWebhook(v) == v \in {AppV2, IndexJs}

\* The requests one detection event sends: handleDetection / handleMatch call
\* fetch once when the webhook URL is not empty.
Deliveries(v, url) == IF HasWebhook(v) /\ url # NoUrl THEN 1 ELSE 0

Init ==
  /\ variant \in Variants
  /\ now = StartTime
  /\ engine = "none"
  /\ awaiter = NoAwaiter
  /\ isMonitoring = FALSE
  /\ isRecording = FALSE
  /\ settings = DefaultSettings(variant)
  /\ lastDetectionTime = 0
  /\ history = <<>>
  /\ closure = Snapshot(FALSE, FALSE, settings, 0)
  /\ loop = FALSE
  /\ refFresh = FALSE
  /\ staleTick = FALSE
  /\ timers = <<>>
  /\ clicks = 0
  /\ cooldownMoved = FALSE
  /\ stream = [live |-> TRUE, fired |-> <<>>]
  /\ wakeLockApi = FALSE
  /\ wakeLock = FALSE
  /\ sentinels = NoSentinels
  /\ deleteStep = NormalStep
  /\ webhookUrl = NoUrl
  /\ posts = 0
  /\ decoding = <<>>
  /\ ev = Quiet

\* ------------------------------------------------------ the audio loop

\* The browser reaches the next animation frame with no callback scheduled.
Elapse ==
  /\ now < StartTime + MaxFrames * FrameMs
  /\ ~loop
  /\ now' = now + FrameMs
  /\ ev' = Quiet
  /\ UNCHANGED <<variant, wakeLockApi, wakeLock, sentinels, deleteStep,
                 webhookUrl, posts, decoding,
                 staleTick, cooldownMoved, stream, clicks, engine,
                 awaiter, isMonitoring, isRecording, settings,
                 lastDetectionTime, history, closure, loop, refFresh, timers>>

\* compare(reference, getFingerprint(freqData)) as the loop computes it; d is
\* the value compare returns for this frame against a reference taken from a
\* live frame.  A NaN reference makes the dot product NaN; against the zero
\* vector the Euclidean compare of App.tsx#2 returns 1/1.4142.
TickValue(v, reference, d) ==
  IF reference = NoRef THEN NoReferenceValue(v)
  ELSE IF reference = NaNVec THEN NaN
  ELSE IF reference = ZeroVec THEN 70
  ELSE d

\* An engine whose frames are never empty.
FrameNeverEmpty(eng) == FALSE

\* getFrequencyData() returns an empty array while the engine has no analyser
\* (init() creates it only after getUserMedia has resolved), and the tick
\* reschedules itself on `freqData.length === 0`.
FrameEmpty(eng) == eng # "ready"

\* `if (!audioEngineRef.current || !isMonitoring ...)` at the top of the tick.
TickIdle(v, c) ==
  \/ engine = "none"
  \/ ~c.isMonitoring /\ ~(v = AppV2 /\ c.isRecording)

\* The if-statement that decides a detection.  App.tsx#2 evaluates it only
\* inside `if (isMonitoring)`.
Detects(v, c, value, t) ==
  /\ v = AppV2 => c.isMonitoring
  /\ value # NaN
  /\ Matches(v, value, c.settings.threshold)
  /\ CooldownElapsed(t, c.lastDetectionTime, c.settings.cooldownSeconds)

\* The tick stream the detection state machine is specified on: distances at
\* one tick per frame under threshold 0.5 and a cooldown of 1.0 s.
StreamScenario ==
  [distances |-> <<90, 90, 10, 10, 10, 90>>, threshold |-> 50,
   cooldownSeconds |-> 10]

\* The tick that is about to run with closure c and compare value d is the
\* next tick of StreamScenario: a build that matches below the threshold
\* monitors with a captured reference and the scenario's configuration, no
\* event has been emitted before the stream's first tick, and every tick so
\* far was one of the stream.
FollowsStream(c, ran, d) ==
  LET k == Len(stream.fired)
  IN  /\ stream.live
      /\ k < Len(StreamScenario.distances)
      /\ ran
      /\ d = StreamScenario.distances[k + 1]
      /\ variant \in {AppV1, AppV2, IndexTsx}
      /\ c.isMonitoring /\ isMonitoring
      /\ c.settings = settings
      /\ settings.referenceFingerprint \in LiveFingerprints
      /\ settings.threshold = StreamScenario.threshold
      /\ settings.cooldownSeconds = StreamScenario.cooldownSeconds
      /\ k = 0 => lastDetectionTime = 0

\* The browser reaches the next animation frame and runs the scheduled
\* callback (tick / loop / process) with the values its closure captured.
Tick(d) ==
  /\ loop
  /\ now < StartTime + MaxFrames * FrameMs
  /\ ~(staleTick /\ RenderOutstanding)
  /\ staleTick' = RenderOutstanding
  /\ now' = now + FrameMs
  /\ LET c     == closure
         idle  == TickIdle(variant, c)
         empty == FrameEmpty(engine)
         value == TickValue(variant, c.settings.referenceFingerprint, d)
         fires == ~idle /\ ~empty /\ Detects(variant, c, value, now')
     IN  /\ loop' = IF idle /\ variant # AppV2 THEN FALSE ELSE TRUE
         /\ IF fires
              THEN /\ \E stamp \in RecordStamps(variant, now') :
                        history' = Prepend(DetectionRecord(stamp, value),
                                           history)
                   /\ lastDetectionTime' = now'
              ELSE UNCHANGED <<history, lastDetectionTime>>
         /\ stream' =
              IF FollowsStream(c, ~idle /\ ~empty, d)
                THEN [stream EXCEPT !.fired = Append(@, fires)]
              ELSE IF stream.live
                      /\ Len(stream.fired) = Len(StreamScenario.distances)
                THEN stream
              ELSE [live |-> FALSE, fired |-> <<>>]
         /\ posts' = IF fires THEN posts + Deliveries(variant, webhookUrl)
                               ELSE posts
         /\ ev' = [op |-> "tick", ran |-> ~idle /\ ~empty, emitted |-> fires,
                   value |-> IF ~idle /\ ~empty THEN value ELSE 0,
                   before |-> lastDetectionTime, kept |-> Len(history)]
  /\ UNCHANGED <<variant, wakeLockApi, wakeLock, sentinels, deleteStep,
                 webhookUrl, decoding,
                 cooldownMoved, clicks, engine, awaiter,
                 isMonitoring, isRecording, settings, closure, refFresh,
                 timers>>

\* React renders the updates queued outside a discrete event and flushes the
\* audio-loop effect: cleanup (cancelAnimationFrame), then the effect again.
Commit ==
  /\ RenderOutstanding
  /\ RunEffects(Current, refFresh)
  /\ ev' = Quiet
  /\ UNCHANGED <<variant, wakeLockApi, wakeLock, sentinels, deleteStep,
                 webhookUrl, posts, decoding,
                 cooldownMoved, stream, clicks, now, engine, awaiter,
                 isMonitoring, isRecording, settings, lastDetectionTime,
                 history, timers>>

\* ------------------------------------------------- monitoring on / off

\* The wake-lock requests after the start branch asked for the lock:
\* toggleWakeLock(true) / requestWakeLock(true) call
\* navigator.wakeLock.request when the API exists and the wakeLock state is
\* null; requestWakeLock() of App.tsx#2, called while wakeLockSupported,
\* requests whatever the state is and clears wakeLockSupported when the API
\* is missing.
WakeOn(v, api, lock, s) ==
  IF v = AppV2
    THEN IF ~s.supported THEN s
         ELSE IF api THEN [s EXCEPT !.requesting = @ + 1]
         ELSE [s EXCEPT !.supported = FALSE]
    ELSE IF api /\ ~lock THEN [s EXCEPT !.requesting = @ + 1] ELSE s

\* The wake-lock requests after the stop branch released the lock: the
\* sentinel of the wakeLock state is released, when there is one.
WakeOff(v, api, lock, s) ==
  IF lock /\ (api \/ v = AppV2) THEN [s EXCEPT !.releasing = @ + 1] ELSE s

\* toggleMonitoring / toggleApp / toggleMonitor with isMonitoring true.
ToggleStop ==
  /\ clicks < MaxUserActions
  /\ clicks' = clicks + 1
  /\ isMonitoring
  /\ isMonitoring' = FALSE
  /\ RunEffects(Snapshot(FALSE, isRecording, settings, lastDetectionTime),
                refFresh)
  /\ ev' = Quiet
  /\ sentinels' = WakeOff(variant, wakeLockApi, wakeLock, sentinels)
  /\ UNCHANGED <<variant, wakeLockApi, wakeLock, deleteStep,
                 webhookUrl, posts, decoding,
                 cooldownMoved, stream, now, engine, awaiter,
                 isRecording, settings, lastDetectionTime, history, timers>>

\* The same handlers with isMonitoring false.  Without an engine they create
\* one and suspend on `await init()`; with one (whatever its state) they set
\* the flag at once.
ToggleStart ==
  /\ clicks < MaxUserActions
  /\ clicks' = clicks + 1
  /\ ~isMonitoring
  /\ IF engine = "none"
       THEN /\ engine' = "pending"
            /\ awaiter' = [who |-> "monitor"]
            /\ UNCHANGED <<isMonitoring, closure, loop, refFresh, staleTick>>
       ELSE /\ isMonitoring' = TRUE
            /\ RunEffects(Snapshot(TRUE, isRecording, settings,
                                   lastDetectionTime), refFresh)
            /\ UNCHANGED <<engine, awaiter>>
  /\ ev' = Quiet
  /\ sentinels' = IF engine = "none" THEN sentinels
                  ELSE WakeOn(variant, wakeLockApi, wakeLock, sentinels)
  /\ UNCHANGED <<variant, wakeLockApi, wakeLock, deleteStep,
                 webhookUrl, posts, decoding,
                 cooldownMoved, stream, now, isRecording, settings,
                 lastDetectionTime, history, timers>>

\* What the capture timer keeps of the click: the inline handler of App.tsx#1
\* closes over `settings` and later spreads it under a new
\* referenceFingerprint, so the other fields are the click's; the other
\* builds update functionally and keep nothing.
NoSnap == [unused |-> TRUE]

TimerSnap(v, st) ==
  IF v = AppV1
    THEN [threshold |-> st.threshold, cooldownSeconds |-> st.cooldownSeconds]
    ELSE NoSnap

\* getUserMedia resolves: init() connects the analyser and the suspended
\* handler continues (outside any event: its setState is rendered later).
InitResolve ==
  /\ engine = "pending"
  /\ engine' = "ready"
  /\ awaiter' = NoAwaiter
  /\ IF awaiter.who = "monitor"
       THEN /\ isMonitoring' = TRUE
            /\ UNCHANGED <<isRecording, timers>>
       ELSE /\ isRecording' = TRUE
            /\ timers' = Append(timers, awaiter.snap)
            /\ UNCHANGED isMonitoring
  /\ ev' = Quiet
  /\ sentinels' = IF awaiter.who = "monitor"
                    THEN WakeOn(variant, wakeLockApi, wakeLock, sentinels)
                  ELSE sentinels
  /\ UNCHANGED <<variant, wakeLockApi, wakeLock, deleteStep,
                 webhookUrl, posts, decoding,
                 staleTick, cooldownMoved, stream, clicks, now,
                 settings, lastDetectionTime, history, closure, loop,
                 refFresh>>

\* getUserMedia rejects (no device, permission denied): init() throws, the
\* handler's continuation never runs, the engine object stays without analyser.
InitReject ==
  /\ engine = "pending"
  /\ engine' = "uninit"
  /\ awaiter' = NoAwaiter
  /\ ev' = Quiet
  /\ sentinels' = IF awaiter.who = "monitor" /\ variant = AppV2
                    THEN WakeOn(variant, wakeLockApi, wakeLock, sentinels)
                  ELSE sentinels
  /\ UNCHANGED <<variant, wakeLockApi, wakeLock, deleteStep,
                 webhookUrl, posts, decoding,
                 staleTick, cooldownMoved, stream, clicks, now,
                 isMonitoring, isRecording, settings, lastDetectionTime,
                 history, closure, loop, refFresh, timers>>

\* ------------------------------------------------------- configuration

\* The threshold slider's onChange.
SetThreshold(t) ==
  /\ clicks < MaxUserActions
  /\ clicks' = clicks + 1
  /\ t # settings.threshold
  /\ settings' = [settings EXCEPT !.threshold = t]
  /\ RunEffects(Snapshot(isMonitoring, isRecording, settings',
                         lastDetectionTime), refFresh)
  /\ ev' = Quiet
  /\ UNCHANGED <<variant, wakeLockApi, wakeLock, sentinels, deleteStep,
                 webhookUrl, posts, decoding,
                 cooldownMoved, stream, now, engine, awaiter,
                 isMonitoring, isRecording, lastDetectionTime, history,
                 timers>>

\* The cooldown slider's onChange.
SetCooldown(c) ==
  /\ clicks < MaxUserActions
  /\ clicks' = clicks + 1
  /\ c # settings.cooldownSeconds
  /\ settings' = [settings EXCEPT !.cooldownSeconds = c]
  /\ cooldownMoved' = TRUE
  /\ RunEffects(Snapshot(isMonitoring, isRecording, settings',
                         lastDetectionTime), refFresh)
  /\ ev' = Quiet
  /\ UNCHANGED <<variant, wakeLockApi, wakeLock, sentinels, deleteStep,
                 webhookUrl, posts, decoding,
                 stream, now, engine, awaiter, isMonitoring,
                 isRecording, lastDetectionTime, history, timers>>

\* The delete button beside "Profile Active" (rendered while a reference is
\* stored): setSettings({...settings, referenceFingerprint: null}).
ClearReference ==
  /\ clicks < MaxUserActions
  /\ clicks' = clicks + 1
  /\ HasClearReference(variant)
  /\ settings.referenceFingerprint # NoRef
  /\ settings' = [settings EXCEPT !.referenceFingerprint = NoRef]
  /\ RunEffects(Snapshot(isMonitoring, isRecording, settings',
                         lastDetectionTime), refFresh)
  /\ ev' = Quiet
  /\ UNCHANGED <<variant, wakeLockApi, wakeLock, sentinels, deleteStep,
                 webhookUrl, posts, decoding,
                 cooldownMoved, stream, now, engine, awaiter,
                 isMonitoring, isRecording, lastDetectionTime, history,
                 timers>>

\* ------------------------------------------------------- live capture

\* The capture button (disabled while the recording flag is set):
\* captureReference / recordSample / captureSample / the inline handler.
CaptureClick ==
  /\ clicks < MaxUserActions
  /\ clicks' = clicks + 1
  /\ ~isRecording
  /\ IF engine = "none"
       THEN /\ engine' = "pending"
            /\ awaiter' = [who |-> "capture",
                           snap |-> TimerSnap(variant, settings)]
            /\ UNCHANGED <<isRecording, timers, closure, loop, refFresh,
                           staleTick>>
       ELSE /\ isRecording' = TRUE
            /\ timers' = Append(timers, TimerSnap(variant, settings))
            /\ RunEffects(Snapshot(isMonitoring, TRUE, settings,
                                   lastDetectionTime), refFresh)
            /\ UNCHANGED <<engine, awaiter>>
  /\ ev' = Quiet
  /\ UNCHANGED <<variant, wakeLockApi, wakeLock, sentinels, deleteStep,
                 webhookUrl, posts, decoding,
                 cooldownMoved, stream, now, isMonitoring, settings,
                 lastDetectionTime, history>>

\* The fingerprint the timer callback extracts: getFingerprint of the frame
\* getFrequencyData returns, which is empty while no analyser is connected.
CapturedFingerprint(v, eng, f) ==
  IF eng = "ready" THEN f ELSE EmptyFrameFingerprint(v)

\* A capture that keeps a reference that is already stored.
StoreReferenceKeepFirst(v, st, snap, fp) ==
  IF st.referenceFingerprint # NoRef THEN st
  ELSE [st EXCEPT !.referenceFingerprint = fp]

\* The settings the timer callback stores.
StoreReference(v, st, snap, fp) ==
  IF v = AppV1
    THEN [threshold |-> snap.threshold,
          cooldownSeconds |-> snap.cooldownSeconds,
          referenceFingerprint |-> fp]
    ELSE [st EXCEPT !.referenceFingerprint = fp]

\* Fingerprints the analyser's frame can have when a capture timer fires.
\* Fingerprints are told apart only by identity, so a frame captured while no
\* live fingerprint is stored is named fpA; a later one is the stored
\* fingerprint again or another one.
FrameFingerprints(reference) ==
  IF reference \in LiveFingerprints THEN LiveFingerprints ELSE {"fpA"}

\* The oldest capture timer fires; f is the fingerprint of the analyser's
\* current frame.
CaptureTimer(f) ==
  /\ timers # <<>>
  /\ f \in FrameFingerprints(settings.referenceFingerprint)
  /\ LET fp == CapturedFingerprint(variant, engine, f)
     IN  /\ settings' = StoreReference(variant, settings, Head(timers), fp)
         /\ ev' = [op |-> "capture", fingerprint |-> fp,
                   previous |-> settings.referenceFingerprint]
  /\ cooldownMoved' =
       (cooldownMoved \/ settings'.cooldownSeconds # settings.cooldownSeconds)
  /\ isRecording' = FALSE
  /\ timers' = Tail(timers)
  /\ refFresh' = TRUE
  /\ UNCHANGED <<variant, wakeLockApi, wakeLock, sentinels, deleteStep,
                 webhookUrl, posts, decoding,
                 staleTick, stream, clicks, now, engine, awaiter,
                 isMonitoring, lastDetectionTime, history, closure, loop>>

\* ------------------------------------------------------------- uploads

\* Uploads whose decoding may be pending at once.
MaxDecoding == 1

\* The builds with a file input for the reference waveform.
HasUpload(v) == v \in {AppV1, AppV2, IndexJs}

\* App.tsx#2 and index.js decode with the engine of the ref and create it,
\* without init(), when there is none; App.tsx#1 decodes with an engine of
\* its own.
EngineAfterUpload(v, eng) ==
  IF v \in {AppV2, IndexJs} /\ eng = "none" THEN "uninit" ELSE eng

\* The user picks a file: the change handler runs up to its first await.
Upload ==
  /\ HasUpload(variant)
  /\ clicks < MaxUserActions
  /\ Len(decoding) < MaxDecoding
  /\ clicks' = clicks + 1
  /\ engine' = EngineAfterUpload(variant, engine)
  /\ decoding' = Append(decoding, TimerSnap(variant, settings))
  /\ ev' = [op |-> "pick"]
  /\ UNCHANGED <<variant, wakeLockApi, wakeLock, sentinels, deleteStep,
                 webhookUrl, posts, cooldownMoved, stream, now,
                 awaiter, isMonitoring, isRecording, settings,
                 lastDetectionTime, history, closure, loop, refFresh,
                 staleTick, timers>>

\* decodeAudioData resolves; f is the fingerprint extracted from the buffer.
\* The handler stores it the way the capture timer does.
DecodeResolve(f) ==
  /\ decoding # <<>>
  /\ f \in FrameFingerprints(settings.referenceFingerprint)
  /\ settings' = StoreReference(variant, settings, Head(decoding), f)
  /\ cooldownMoved' =
       (cooldownMoved \/ settings'.cooldownSeconds # settings.cooldownSeconds)
  /\ decoding' = Tail(decoding)
  /\ refFresh' = TRUE
  /\ ev' = [op |-> "upload", ok |-> TRUE, fingerprint |-> f,
            before |-> settings]
  /\ UNCHANGED <<variant, wakeLockApi, wakeLock, sentinels, deleteStep,
                 webhookUrl, posts, staleTick, stream, clicks, now,
                 engine, awaiter, isMonitoring, isRecording,
                 lastDetectionTime, history, closure, loop, timers>>

\* A failed decoding that drops the stored reference.
DecodeFailedClears(v, st) == [st EXCEPT !.referenceFingerprint = NoRef]

\* The settings after decodeAudioData rejected: the await throws before
\* setSettings / setConfig is reached, and the catch block (App.tsx#2,
\* index.js) only alerts.
DecodeFailed(v, st) == st

\* decodeAudioData rejects.
DecodeReject ==
  /\ decoding # <<>>
  /\ settings' = DecodeFailed(variant, settings)
  /\ decoding' = Tail(decoding)
  /\ ev' = [op |-> "upload", ok |-> FALSE, fingerprint |-> NoRef,
            before |-> settings]
  /\ UNCHANGED <<variant, wakeLockApi, wakeLock, sentinels, deleteStep,
                 webhookUrl, posts, cooldownMoved, staleTick, stream,
                 clicks, now, engine, awaiter, isMonitoring, isRecording,
                 lastDetectionTime, history, closure, loop, refFresh, timers>>

\* ------------------------------------------------------------- webhook

\* A delivery that is sent again after it failed.
WebhookRetried(n, ok) == IF ok THEN n - 1 ELSE n

\* The requests in flight after one of them has settled: notifyHomeAssistant
\* logs a response that is not ok and a rejected fetch, index.js swallows the
\* rejection; neither sends the request again.
WebhookOutcome(n, ok) == n - 1

\* A webhook request settles: the response is ok, or the request failed.
WebhookDone(ok) ==
  /\ posts > 0
  /\ posts' = WebhookOutcome(posts, ok)
  /\ ev' = [op |-> "webhook", ok |-> ok]
  /\ UNCHANGED <<variant, wakeLockApi, wakeLock, sentinels, deleteStep,
                 webhookUrl, decoding, cooldownMoved, staleTick,
                 stream, clicks, now, engine, awaiter, isMonitoring,
                 isRecording, settings, lastDetectionTime, history, closure,
                 loop, refFresh, timers>>

\* ---------------------------------------------------------------- system

Next ==
  \/ Elapse
  \/ \E d \in Distances : Tick(d)
  \/ Commit
  \/ ToggleStop
  \/ ToggleStart
  \/ InitResolve
  \/ InitReject
  \/ \E t \in ThresholdChoices(variant) : SetThreshold(t)
  \/ \E c \in CooldownChoices(variant) : SetCooldown(c)
  \/ ClearReference
  \/ CaptureClick
  \/ \E f \in LiveFingerprints : CaptureTimer(f)

Spec == Init /\ [][Next]_vars

\* The page loads a saved configuration that holds a reference and a
\* webhook URL, in a build that posts detections.
WebhookInit ==
  /\ variant \in {v \in Variants : HasWebhook(v)}
  /\ now = StartTime
  /\ engine = "none"
  /\ awaiter = NoAwaiter
  /\ isMonitoring = FALSE
  /\ isRecording = FALSE
  /\ settings = [DefaultSettings(variant) EXCEPT
                   !.referenceFingerprint = "fpA"]
  /\ lastDetectionTime = 0
  /\ history = <<>>
  /\ closure = Snapshot(FALSE, FALSE, settings, 0)
  /\ loop = FALSE
  /\ refFresh = FALSE
  /\ staleTick = FALSE
  /\ timers = <<>>
  /\ clicks = 0
  /\ cooldownMoved = FALSE
  /\ stream = [live |-> TRUE, fired |-> <<>>]
  /\ wakeLockApi = FALSE
  /\ wakeLock = FALSE
  /\ sentinels = NoSentinels
  /\ deleteStep = NormalStep
  /\ webhookUrl = "http://ha.local/api/webhook/meter"
  /\ posts = 0
  /\ decoding = <<>>
  /\ ev = Quiet

\* The user starts and stops monitoring and moves the cooldown slider; the
\* reference and the threshold stay as loaded.
WebhookNext ==
  \/ Elapse
  \/ \E d \in Distances : Tick(d)
  \/ Commit
  \/ ToggleStop
  \/ ToggleStart
  \/ InitResolve
  \/ InitReject
  \/ \E c \in CooldownChoices(variant) : SetCooldown(c)
  \/ \E ok \in BOOLEAN : WebhookDone(ok)

WebhookSpec == WebhookInit /\ [][WebhookNext]_vars

\* ------------------------------------------ the engine's pure functions

\* The page as loaded, before any handler ran; ev is left to the
\* specification.
PageLoaded ==
  /\ variant \in Variants
  /\ now = StartTime
  /\ engine = "none"
  /\ awaiter = NoAwaiter
  /\ isMonitoring = FALSE
  /\ isRecording = FALSE
  /\ settings = DefaultSettings(variant)
  /\ lastDetectionTime = 0
  /\ history = <<>>
  /\ closure = Snapshot(FALSE, FALSE, settings, 0)
  /\ loop = FALSE
  /\ refFresh = FALSE
  /\ staleTick = FALSE
  /\ timers = <<>>
  /\ clicks = 0
  /\ cooldownMoved = FALSE
  /\ stream = [live |-> TRUE, fired |-> <<>>]
  /\ wakeLockApi = FALSE
  /\ wakeLock = FALSE
  /\ sentinels = NoSentinels
  /\ deleteStep = NormalStep
  /\ webhookUrl = NoUrl
  /\ posts = 0
  /\ decoding = <<>>

\* A call of a pure function leaves the program's state alone.
StateKept ==
  UNCHANGED <<variant, now, engine, awaiter, isMonitoring, isRecording,
              settings, lastDetectionTime, history, closure, loop, refFresh,
              staleTick, timers, clicks, cooldownMoved, stream, wakeLockApi,
              wakeLock, sentinels, deleteStep, webhookUrl, posts, decoding>>

\* Fingerprint components, in tenths.
Components == {0, 6, 8}

\* Longest fingerprint the functions are applied to.
MaxLen == 2

\* Fingerprints of every length up to MaxLen.
Vectors == UNION {[1 .. n -> Components] : n \in 0 .. MaxLen}

\* Math.max(0, Math.min(1, x)) in hundredths; both pass NaN on.
Clamp(x) == IF x = NaN THEN NaN ELSE IF x < 0 THEN 0 ELSE IF x > 100 THEN 100
            ELSE x

\* The loop `for (i = 0; i < f1.length; i++) dot += f1[i] * f2[i]`, in
\* hundredths, from index i on.  f2[i] past the end of f2 is undefined and
\* the product NaN, which the sum keeps.
RECURSIVE DotFrom(_, _, _)
DotFrom(f1, f2, i) ==
  IF i > Len(f1) THEN 0
  ELSE LET rest == DotFrom(f1, f2, i + 1)
       IN  IF i > Len(f2) \/ rest = NaN THEN NaN ELSE f1[i] * f2[i] + rest

\* The sum of the squared differences of the Euclidean compare, in
\* hundredths (the lengths are equal where it runs).
RECURSIVE SumSqFrom(_, _, _)
SumSqFrom(f1, f2, i) ==
  IF i > Len(f1) THEN 0
  ELSE (f1[i] - f2[i]) * (f1[i] - f2[i]) + SumSqFrom(f1, f2, i + 1)

\* The integer part of the square root.
ISqrt(n) == CHOOSE k \in 0 .. n : k * k <= n /\ n < (k + 1) * (k + 1)

\* A compare without the length test.
compareUnchecked(v, f1, f2) ==
  LET dot == Clamp(DotFrom(f1, f2, 1))
  IN  IF dot = NaN THEN NaN ELSE 100 - dot

\* compare(f1, f2) of each build's engine, in hundredths.  The engines of
\* App.tsx and index.tsx test the lengths first; App.tsx#2 then takes the
\* Euclidean distance / 1.4142 (100 * sqrt(sumSq / 100) / 1.4142 is
\* sqrt(50 * sumSq)), the others one minus the clamped dot product.  index.js
\* has no length test, and part_001 has none and returns the similarity.
compare(v, f1, f2) ==
  IF v \in {AppV1, AppV2, IndexTsx} /\ Len(f1) # Len(f2) THEN 100
  ELSE IF v = AppV2 THEN Clamp(ISqrt(50 * SumSqFrom(f1, f2, 1)))
  ELSE IF v = Part001 THEN Clamp(DotFrom(f1, f2, 1))
  ELSE compareUnchecked(v, f1, f2)

\* The engine's compare is about to be called on two fingerprints.
CompareInit ==
  /\ PageLoaded
  /\ ev \in [op : {"vectors"}, f1 : Vectors, f2 : Vectors]

\* compare(f1, f2) returns.
CallCompare ==
  /\ ev.op = "vectors"
  /\ ev' = [op |-> "compare", f1 |-> ev.f1, f2 |-> ev.f2,
            result |-> compare(variant, ev.f1, ev.f2)]
  /\ StateKept

CompareSpec == CompareInit /\ [][CallCompare]_vars

\* --------------------------------------------------------- persistence

\* A numeric field that is undefined (the key is missing in the object).
Undefined == 0 - 2

\* The array JSON.parse returns for an array of nulls.
NullVec == "fpNull"

\* JSON.stringify of the reference: null, or the array of its numbers, in
\* which NaN is written as null.
ReferenceText(fp) ==
  IF fp = NoRef THEN "null"
  ELSE IF fp \in {NaNVec, NullVec} THEN "[null,null]"
  ELSE IF fp = "undefined" THEN "missing"
  ELSE fp

\* JSON.parse of the reference's text.
ReferenceValue(text) ==
  IF text = "null" THEN NoRef
  ELSE IF text = "[null,null]" THEN NullVec
  ELSE IF text = "missing" THEN "undefined"
  ELSE text

\* JSON.stringify(settings): a finite number is written so that it parses
\* back to itself, a key whose value is undefined is left out.
JSONstringify(st) ==
  [threshold |-> st.threshold,
   cooldownSeconds |-> st.cooldownSeconds,
   referenceFingerprint |-> ReferenceText(st.referenceFingerprint)]

\* JSON.parse(saved) of a well-formed text: a key that is left out reads as
\* undefined.
JSONparse(text) ==
  [threshold |-> text.threshold,
   cooldownSeconds |-> text.cooldownSeconds,
   referenceFingerprint |-> ReferenceValue(text.referenceFingerprint)]

\* localStorage.getItem returned null: nothing was saved.
NothingSaved == [kind |-> "none"]

\* A saved text that is not JSON.
CorruptText == [kind |-> "corrupt"]

\* The texts the settings key of localStorage can hold at page load:
\* nothing, a text that is not JSON, or an object with each field present
\* or left out.
StoredTexts(v) ==
  {NothingSaved, CorruptText} \cup
  [kind : {"json"},
   threshold : ThresholdChoices(v) \cup {Undefined},
   cooldownSeconds : {DefaultSettings(v).cooldownSeconds, 10, Undefined},
   referenceFingerprint :
     {"null", "missing", "[null,null]"} \cup LiveFingerprints]

\* The useState initialiser of the settings:
\* `saved ? JSON.parse(saved) : {defaults}`.  threw tells that JSON.parse
\* raised a SyntaxError, which leaves the component unmounted.
LoadSettings(v, saved) ==
  IF saved.kind = "none" THEN [threw |-> FALSE, value |-> DefaultSettings(v)]
  ELSE IF saved.kind = "corrupt"
    THEN [threw |-> TRUE, value |-> DefaultSettings(v)]
  ELSE [threw |-> FALSE, value |-> JSONparse(saved)]

\* The page is about to mount the App over a stored text.
StartupInit ==
  /\ PageLoaded
  /\ ev \in [op : {"stored"}, saved : StoredTexts(variant)]

\* The App mounts: the initialiser of the settings runs.
Mount ==
  /\ ev.op = "stored"
  /\ LET loaded == LoadSettings(variant, ev.saved)
     IN  /\ settings' = loaded.value
         /\ closure' = Snapshot(FALSE, FALSE, loaded.value, 0)
         /\ ev' = [op |-> "mount", saved |-> ev.saved,
                   threw |-> loaded.threw]
  /\ UNCHANGED <<variant, now, engine, awaiter, isMonitoring, isRecording,
                 lastDetectionTime, history, loop, refFresh, staleTick,
                 timers, clicks, cooldownMoved, stream, wakeLockApi,
                 wakeLock, sentinels, deleteStep, webhookUrl, posts,
                 decoding>>

StartupSpec == StartupInit /\ [][Mount]_vars

\* ------------------------------------------- fingerprints of uploaded files

\* The waveforms a file can hold.
Waveforms == {"w1", "w2", "w3", "w4"}

\* The outcomes of the Math.random() calls of one extraction.
RandomDraws == {"r1", "r2", "r3", "r4", "r5"}

\* The function the loop and the capture timer extract a fingerprint with:
\* the mel filterbank of 40 bands in App.tsx#2, the linear banding of the
\* spectrum in 64 bands elsewhere.
LiveExtractor(v) ==
  IF v = AppV2 THEN [extractor |-> "mel", length |-> 40]
  ELSE [extractor |-> "linear", length |-> 64]

\* The fingerprint of an uploaded waveform.  App.tsx#1 decodes the file and
\* returns 64 Math.random() values; App.tsx#2 renders the file through an
\* offline analyser and passes its spectrum to getFingerprint; index.js sums
\* the absolute samples after the loudest sample, in 64 windows.
FingerprintFromBuffer(v, w, r) ==
  IF v = AppV1 THEN [extractor |-> "random", length |-> 64, of |-> r]
  ELSE IF v = AppV2 THEN [extractor |-> "mel", length |-> 40, of |-> w]
  ELSE [extractor |-> "time", length |-> 64, of |-> w]

\* A file is about to be uploaded, twice.
ExtractInit ==
  /\ PageLoaded
  /\ HasUpload(variant)
  /\ ev \in [op : {"file"}, waveform : Waveforms]

\* The first upload of the file is decoded.
ExtractFirst(r) ==
  /\ ev.op = "file"
  /\ ev' = [op |-> "first", waveform |-> ev.waveform,
            first |-> FingerprintFromBuffer(variant, ev.waveform, r)]
  /\ StateKept

\* The second upload of the same file is decoded.
ExtractSecond(r) ==
  /\ ev.op = "first"
  /\ ev' = [op |-> "second", waveform |-> ev.waveform, first |-> ev.first,
            second |-> FingerprintFromBuffer(variant, ev.waveform, r)]
  /\ StateKept

ExtractNext ==
  \/ \E r \in RandomDraws : ExtractFirst(r)
  \/ \E r \in RandomDraws : ExtractSecond(r)

ExtractSpec == ExtractInit /\ [][ExtractNext]_vars

\* -------------------------------------------------------- linear banding

\* `const bands = 64` of the linear getFingerprint / extractFingerprint.
Bands == 64

\* Longest frame the banding is applied to.
MaxBins == 130

\* The builds whose engine bands the spectrum linearly.
HasLinearBanding(v) == v # AppV2

\* `const step = Math.floor(data.length / bands)`.
BandStep(n) == n \div Bands

\* The bands whose inner loop reads bin i of a frame of n bins: band b sums
\* data[b * step + j] for j in 0 .. step - 1.
BandsOfBin(n, i) ==
  {b \in 0 .. (Bands - 1) :
     \E j \in 0 .. (BandStep(n) - 1) : b * BandStep(n) + j = i}

\* getFingerprint is about to be called on a frame of n bins.
BandingInit ==
  /\ PageLoaded
  /\ HasLinearBanding(variant)
  /\ ev \in [op : {"frame"}, bins : Bands .. MaxBins]

\* The two loops of getFingerprint run over the frame.
BandFrame ==
  /\ ev.op = "frame"
  /\ ev' = [op |-> "banded", bins |-> ev.bins,
            bandsOf |-> [i \in 0 .. (ev.bins - 1) |-> BandsOfBin(ev.bins, i)]]
  /\ StateKept

BandingSpec == BandingInit /\ [][BandFrame]_vars

\* ------------------------------------------------------------ wake lock

\* navigator.wakeLock.request resolves: the page holds one more sentinel and
\* the continuation stores it with setWakeLock(lock).
WakeGranted ==
  /\ sentinels.requesting > 0
  /\ sentinels' = [sentinels EXCEPT !.requesting = @ - 1, !.held = @ + 1]
  /\ wakeLock' = TRUE
  /\ ev' = [op |-> "wake", granted |-> TRUE]
  /\ UNCHANGED <<variant, wakeLockApi, deleteStep, webhookUrl, posts,
                 decoding, cooldownMoved, staleTick, stream, clicks, now,
                 engine, awaiter, isMonitoring, isRecording, settings,
                 lastDetectionTime, history, closure, loop, refFresh, timers>>

\* navigator.wakeLock.request rejects (NotAllowedError): the catch block logs
\* it; App.tsx#2 clears wakeLockSupported.
WakeDenied ==
  /\ sentinels.requesting > 0
  /\ sentinels' = [sentinels EXCEPT
                     !.requesting = @ - 1,
                     !.supported = IF variant = AppV2 THEN FALSE ELSE @]
  /\ ev' = [op |-> "wake", granted |-> FALSE]
  /\ UNCHANGED <<variant, wakeLockApi, wakeLock, deleteStep, webhookUrl,
                 posts, decoding, cooldownMoved, staleTick, stream, clicks,
                 now, engine, awaiter, isMonitoring, isRecording, settings,
                 lastDetectionTime, history, closure, loop, refFresh, timers>>

\* wakeLock.release() resolves: the sentinel is released (releasing a
\* released sentinel changes nothing) and the continuation calls
\* setWakeLock(null).
WakeReleased ==
  /\ sentinels.releasing > 0
  /\ sentinels' = [sentinels EXCEPT
                     !.releasing = @ - 1,
                     !.held = IF @ > 0 THEN @ - 1 ELSE 0]
  /\ wakeLock' = FALSE
  /\ ev' = [op |-> "release"]
  /\ UNCHANGED <<variant, wakeLockApi, deleteStep, webhookUrl, posts,
                 decoding, cooldownMoved, staleTick, stream, clicks, now,
                 engine, awaiter, isMonitoring, isRecording, settings,
                 lastDetectionTime, history, closure, loop, refFresh, timers>>

\* The page runs in a browser with the Screen Wake Lock API.
WakeLockInit ==
  /\ variant \in Variants
  /\ now = StartTime
  /\ engine = "none"
  /\ awaiter = NoAwaiter
  /\ isMonitoring = FALSE
  /\ isRecording = FALSE
  /\ settings = DefaultSettings(variant)
  /\ lastDetectionTime = 0
  /\ history = <<>>
  /\ closure = Snapshot(FALSE, FALSE, settings, 0)
  /\ loop = FALSE
  /\ refFresh = FALSE
  /\ staleTick = FALSE
  /\ timers = <<>>
  /\ clicks = 0
  /\ cooldownMoved = FALSE
  /\ stream = [live |-> TRUE, fired |-> <<>>]
  /\ wakeLockApi = TRUE
  /\ wakeLock = FALSE
  /\ sentinels = NoSentinels
  /\ deleteStep = NormalStep
  /\ webhookUrl = NoUrl
  /\ posts = 0
  /\ decoding = <<>>
  /\ ev = Quiet

\* The user starts and stops monitoring; nothing else acquires the engine.
WakeLockNext ==
  \/ ToggleStart
  \/ ToggleStop
  \/ InitResolve
  \/ InitReject
  \/ Commit
  \/ WakeGranted
  \/ WakeDenied
  \/ WakeReleased

WakeLockSpec == WakeLockInit /\ [][WakeLockNext]_vars

\* ------------------------------------------------ the detection history

\* The histories an earlier session of the same build left in localStorage
\* (useState(() => JSON.parse(saved))): up to the cap, newest first, every
\* record older than this page load.
SavedHistories ==
  {[i \in 1 .. n |-> DetectionRecord(StartTime - i * FrameMs, 10)] :
     n \in 0 .. HistoryCap}

\* The page loads with a saved reference and a saved history.
HistoryInit ==
  /\ variant \in Variants
  /\ now = StartTime
  /\ engine = "none"
  /\ awaiter = NoAwaiter
  /\ isMonitoring = FALSE
  /\ isRecording = FALSE
  /\ settings = [DefaultSettings(variant) EXCEPT
                   !.referenceFingerprint = "fpA"]
  /\ lastDetectionTime = 0
  /\ history \in SavedHistories
  /\ closure = Snapshot(FALSE, FALSE, settings, 0)
  /\ loop = FALSE
  /\ refFresh = FALSE
  /\ staleTick = FALSE
  /\ timers = <<>>
  /\ clicks = 0
  /\ cooldownMoved = FALSE
  /\ stream = [live |-> TRUE, fired |-> <<>>]
  /\ wakeLockApi = FALSE
  /\ wakeLock = FALSE
  /\ sentinels = NoSentinels
  /\ deleteStep = NormalStep
  /\ webhookUrl = NoUrl
  /\ posts = 0
  /\ decoding = <<>>
  /\ ev = Quiet

\* The builds whose clear button asks for a second click.
HasTwoStepClear(v) == v = IndexJs

\* setTimeout(() => setDeleteStep(0), 3000)
ConfirmMs == 3000

\* A clear button that empties the history at the first click.
ClearAtOnce(step, hist) == [step |-> NormalStep, history |-> <<>>]

\* handleClearClick with the deleteStep its render saw: the first click arms
\* the confirmation (the click's render runs the effect, which starts the
\* reset timer); the click on the armed button empties the history and sets
\* the step back (the effect's cleanup clears the timer).
AfterClearClick(step, hist) ==
  IF step.rendered = 0
    THEN [step |-> [state |-> 1, rendered |-> 1, timer |-> ConfirmMs],
          history |-> hist]
    ELSE [step |-> NormalStep, history |-> <<>>]

\* The user clicks the clear button of the history tab of index.js.
ClearClick ==
  /\ HasTwoStepClear(variant)
  /\ clicks < MaxUserActions
  /\ clicks' = clicks + 1
  /\ deleteStep' = AfterClearClick(deleteStep, history).step
  /\ history' = AfterClearClick(deleteStep, history).history
  /\ RunEffects(Current, refFresh)
  /\ ev' = [op |-> "clear", armed |-> deleteStep.rendered = 1]
  /\ UNCHANGED <<variant, wakeLockApi, wakeLock, sentinels, webhookUrl,
                 posts, decoding, cooldownMoved, stream, now, engine,
                 awaiter, isMonitoring, isRecording, settings,
                 lastDetectionTime, timers>>

\* The reset timer fires: setDeleteStep(0), rendered in a later task.
ClearTimeout ==
  /\ deleteStep.timer > 0
  /\ deleteStep' = [deleteStep EXCEPT !.state = 0, !.timer = 0]
  /\ ev' = [op |-> "reset"]
  /\ UNCHANGED <<variant, wakeLockApi, wakeLock, sentinels, webhookUrl,
                 posts, decoding, cooldownMoved, stream, clicks, now,
                 engine, awaiter, isMonitoring, isRecording, settings,
                 lastDetectionTime, history, closure, loop, refFresh,
                 staleTick, timers>>

\* React renders the deleteStep the timer set.
RenderStep ==
  /\ deleteStep.rendered # deleteStep.state
  /\ deleteStep' = [deleteStep EXCEPT !.rendered = deleteStep.state]
  /\ ev' = Quiet
  /\ UNCHANGED <<variant, wakeLockApi, wakeLock, sentinels, webhookUrl,
                 posts, decoding, cooldownMoved, stream, clicks, now,
                 engine, awaiter, isMonitoring, isRecording, settings,
                 lastDetectionTime, history, closure, loop, refFresh,
                 staleTick, timers>>

\* The clear button of the other builds: setHistory([]) at the click
\* (part_001 after confirm() returned true).
ClearHistory ==
  /\ ~HasTwoStepClear(variant)
  /\ clicks < MaxUserActions
  /\ clicks' = clicks + 1
  /\ history' = <<>>
  /\ RunEffects(Current, refFresh)
  /\ ev' = [op |-> "clear", armed |-> TRUE]
  /\ UNCHANGED <<variant, wakeLockApi, wakeLock, sentinels, deleteStep,
                 webhookUrl, posts, decoding, cooldownMoved, stream, now,
                 engine, awaiter, isMonitoring, isRecording, settings,
                 lastDetectionTime, timers>>

\* The user starts and stops monitoring and clears the history; the frames
\* add to the history.
HistoryNext ==
  \/ Elapse
  \/ \E d \in Distances : Tick(d)
  \/ Commit
  \/ ToggleStop
  \/ ToggleStart
  \/ InitResolve
  \/ InitReject
  \/ ClearClick
  \/ ClearTimeout
  \/ RenderStep
  \/ ClearHistory

HistorySpec == HistoryInit /\ [][HistoryNext]_vars

\* The handlers that write the configuration, with the file input in use
\* and monitoring off.
UploadNext ==
  \/ Commit
  \/ InitResolve
  \/ InitReject
  \/ \E t \in ThresholdChoices(variant) : SetThreshold(t)
  \/ \E c \in CooldownChoices(variant) : SetCooldown(c)
  \/ ClearReference
  \/ CaptureClick
  \/ \E f \in LiveFingerprints : CaptureTimer(f)
  \/ Upload
  \/ \E f \in LiveFingerprints : DecodeResolve(f)
  \/ DecodeReject

UploadSpec == Init /\ [][UploadNext]_vars

\* =============================================================== claims

\* The last step ran the loop's detection test (engine present, frame not
\* empty, monitoring or capture display active).
TickRan == ev.op = "tick" /\ ev.ran

\* The last step was a tick that emitted a detection event.
Emitted == ev.op = "tick" /\ ev.emitted

\* The value of the last tick passes the build's match test as the source
\* writes it, against the threshold the tick's closure holds.
Qualifies ==
  /\ ev.value # NaN
  /\ CASE variant \in {AppV1, AppV2, IndexTsx} ->
            ev.value <= closure.settings.threshold
       [] variant = IndexJs -> ev.value > closure.settings.threshold
       [] variant = Part001 -> ev.value >= closure.settings.threshold

\* The tick's closure held what the component's state holds (no render was
\* outstanding when the frame callback ran).
ClosureCurrent ==
  /\ closure.settings = settings
  /\ closure.isMonitoring = isMonitoring
  /\ ev.op = "tick" => closure.lastDetectionTime = ev.before

\* C1: with no reference fingerprint stored, a monitoring tick never emits a
\* detection event, whatever the distance, the threshold and the cooldown
\* state.
C1_NoReferenceNoEvent ==
  (ev.op = "tick"
     /\ settings.referenceFingerprint = NoRef
     /\ closure.settings.referenceFingerprint = NoRef)
  => ~ev.emitted

\* C2: with a fixed cooldown, two consecutive detection events are at least
\* cooldownMs apart, however many qualifying ticks lie between them.
C2_EventsCooldownApart ==
  (Emitted
     /\ ~cooldownMoved
     /\ closure.settings.referenceFingerprint # NoRef
     /\ ev.before > 0)
  => now - ev.before >= CooldownMs(settings.cooldownSeconds)

\* C3: for the distance stream 0.9, 0.9, 0.1, 0.1, 0.1, 0.9 at one tick per
\* 200 ms, threshold 0.5, match below, cooldown 1000 ms and a reference set,
\* exactly one event is emitted, on tick index 2; ticks 3, 4 and 5 emit
\* nothing.
C3_StreamEmitsOnceAtTick2 ==
  (stream.live /\ Len(stream.fired) = Len(StreamScenario.distances))
  => stream.fired = <<FALSE, FALSE, TRUE, FALSE, FALSE, FALSE>>

\* C4 as stated: a qualifying tick at now - lastTriggerTime = cooldownMs
\* exactly emits a detection event on that tick.
C4_ExpiryTickEmits ==
  (TickRan
     /\ ClosureCurrent
     /\ closure.isMonitoring
     /\ closure.settings.referenceFingerprint \in LiveFingerprints
     /\ Qualifies
     /\ now - ev.before = CooldownMs(settings.cooldownSeconds))
  => ev.emitted

\* C4 amended: the cooldown test is strict.  A tick that runs at
\* now - lastDetectionTime = cooldownMs exactly emits nothing, and a
\* qualifying monitoring tick emits as soon as the difference exceeds
\* cooldownMs (both on the values the tick's closure holds).
C4_ExpiryTickWaits ==
  /\ (TickRan
        /\ now - closure.lastDetectionTime
             = CooldownMs(closure.settings.cooldownSeconds))
     => ~ev.emitted
  /\ (TickRan
        /\ closure.isMonitoring
        /\ Qualifies
        /\ now - closure.lastDetectionTime
             > CooldownMs(closure.settings.cooldownSeconds))
     => ev.emitted

\* A qualifying tick ran exactly one cooldown after the last event and
\* emitted nothing.
C4_ExpiryTickReached ==
  /\ TickRan
  /\ ClosureCurrent
  /\ closure.isMonitoring
  /\ closure.settings.referenceFingerprint \in LiveFingerprints
  /\ Qualifies
  /\ ev.before > 0
  /\ now - ev.before = CooldownMs(settings.cooldownSeconds)
  /\ ~ev.emitted

\* C5: while monitoring stays on with a reference set and every tick
\* qualifies, events recur once per cooldown period and never once per tick:
\* the tick that follows an emitting tick emits nothing (every cooldown is
\* longer than a frame).
C5_NotOncePerTick ==
  (Emitted
     /\ isMonitoring
     /\ settings.referenceFingerprint \in LiveFingerprints
     /\ closure.settings = settings
     /\ CooldownMs(settings.cooldownSeconds) > FrameMs)
  => ev.before # now - FrameMs

C7_RecordCarriesTickNow ==
  (Emitted /\ closure.settings.referenceFingerprint \in LiveFingerprints) =>
    /\ history[1].distance = ev.value
    /\ history[1].timestamp = now
    /\ lastDetectionTime = now

\* C8: after a change of threshold or cooldown the next monitoring tick
\* tests with the new values; no tick uses a value from before the change.
\* A monitoring tick that runs with every earlier update rendered (the change
\* included) therefore emits exactly when its value matches under the
\* threshold the settings hold and the cooldown the settings hold has
\* elapsed.
C8_NextTickUsesNewConfig ==
  (TickRan
     /\ ~staleTick
     /\ closure.isMonitoring /\ isMonitoring
     /\ settings.referenceFingerprint \in LiveFingerprints)
  => (ev.emitted <=>
        /\ Matches(variant, ev.value, settings.threshold)
        /\ now - ev.before > CooldownMs(settings.cooldownSeconds))

\* C9: when a live capture completes, the stored reference is exactly the
\* fingerprint that capture extracted, also when an earlier capture had
\* stored another one.
C9_CaptureReplacesReference ==
  ev.op = "capture" => settings.referenceFingerprint = ev.fingerprint

\* A second live capture completed with a fingerprint other than the one
\* the first capture had stored.
C9_SecondCaptureReached ==
  /\ ev.op = "capture"
  /\ ev.previous \in LiveFingerprints
  /\ ev.fingerprint \in LiveFingerprints
  /\ ev.fingerprint # ev.previous

\* C10: while a live capture window is open (recording flag set, capture
\* timer pending) no monitoring tick emits a detection event.
C10_NoEventWhileCapturing ==
  (ev.op = "tick"
     /\ isRecording
     /\ timers # <<>>
     /\ closure.isRecording = isRecording
     /\ settings.referenceFingerprint \in LiveFingerprints)
  => ~ev.emitted

\* C11: between the start request and the completion of the microphone
\* acquisition every tick is a no-op: it emits no event and changes neither
\* the detection state nor any other state of the component, whatever start
\* and capture requests were made before it.
C11_PendingTickNoOp ==
  [][(engine = "pending" /\ \E d \in Distances : Tick(d))
       => UNCHANGED <<history, lastDetectionTime, settings, isMonitoring,
                      isRecording, timers, engine, awaiter>>]_vars

\* A scheduled monitoring tick found the acquisition still pending.
C11_PendingTickReached ==
  /\ ev.op = "tick"
  /\ engine = "pending"
  /\ closure.isMonitoring
  /\ ~ev.ran

\* C12: stopping monitoring releases the audio capture resource: after the
\* stop the engine no longer holds an acquired microphone.
C12_StopReleasesCapture ==
  [][(ToggleStop /\ engine = "ready") => engine' # "ready"]_vars

\* C13: when the microphone acquisition fails, monitoring does not start:
\* the monitoring flag is never set on an engine whose acquisition was
\* rejected.
C13_FailedAcquisitionNoMonitoring ==
  engine = "uninit" => ~isMonitoring

\* C14: when decoding an uploaded waveform fails, the stored reference and
\* the rest of the configuration are exactly what they were before the
\* upload failed.
C14_FailedUploadKeepsConfig ==
  [][DecodeReject => UNCHANGED <<settings, webhookUrl>>]_vars

\* An upload failed while a reference was stored.
C14_FailedUploadReached ==
  /\ ev.op = "upload"
  /\ ~ev.ok
  /\ ev.before.referenceFingerprint \in LiveFingerprints

\* C15: a tick that emits a detection event sends at most one webhook
\* request and a tick that emits none sends no request; the outcome of a
\* request changes neither the last trigger time, the history nor the
\* scheduling of the next tick, and a failed request is not sent again.
C15_WebhookOncePerEvent ==
  [][/\ (\E d \in Distances : Tick(d)) =>
          /\ posts' - posts \in {0, 1}
          /\ ~ev'.emitted => posts' = posts
     /\ (\E ok \in BOOLEAN : WebhookDone(ok)) =>
          /\ UNCHANGED <<lastDetectionTime, history, loop, closure, staleTick,
                         now, isMonitoring, settings>>
          /\ posts' = posts - 1]_vars

\* A webhook request failed after a detection event and none is in flight.
C15_FailedDeliveryReached ==
  /\ ev.op = "webhook"
  /\ ~ev.ok
  /\ history # <<>>
  /\ posts = 0

\* C16: compare(f1, f2) on fingerprints of different lengths returns
\* exactly 1.0, whichever of the two is the longer.
C16_LengthMismatchIsOne ==
  (ev.op = "compare" /\ Len(ev.f1) # Len(ev.f2)) => ev.result = 100

\* C17: an empty frame is skipped on the capture path as on the tick path:
\* the fingerprint a completed capture stores as the reference is the
\* fingerprint of a live frame, never the one computed from an empty frame.
C17_EmptyFrameNeverStored ==
  ev.op = "capture" => ev.fingerprint \in LiveFingerprints

\* C18: writing the configuration to the persistent storage and loading it
\* again reproduces the threshold, the cooldown and the reference
\* fingerprint, for every configuration the program reaches.
C18_SaveLoadRoundTrip ==
  LoadSettings(variant, [kind |-> "json"] @@ JSONstringify(settings)).value
    = settings

\* C19: loading a persisted configuration with a missing field or a corrupt
\* text does not fail the startup, and each missing field takes its default.
C19_LoadFallsBackToDefaults ==
  ev.op = "mount" =>
    /\ ~ev.threw
    /\ settings.threshold # Undefined
    /\ settings.cooldownSeconds # Undefined
    /\ settings.referenceFingerprint # "undefined"
    /\ ev.saved = CorruptText => settings = DefaultSettings(variant)

C21_UploadDeterministic ==
  ev.op = "second" =>
    /\ ev.first = ev.second
    /\ ev.first.extractor = LiveExtractor(variant).extractor
    /\ ev.first.length = LiveExtractor(variant).length

C23_TickSeesLastTrigger ==
  [][((\E d \in Distances : Tick(d)) /\ ev'.ran)
       => closure.lastDetectionTime = lastDetectionTime]_vars

\* C24: the completion of a live capture or of a file upload changes only
\* the reference fingerprint: threshold, cooldown and webhook URL keep the
\* values they have when the timer fires or the decoding resolves.
C24_CompletionKeepsSettings ==
  [][((\E f \in LiveFingerprints : CaptureTimer(f))
        \/ (\E f \in LiveFingerprints : DecodeResolve(f)))
       => /\ settings'.threshold = settings.threshold
          /\ settings'.cooldownSeconds = settings.cooldownSeconds
          /\ webhookUrl' = webhookUrl]_vars

\* C25: whenever the monitoring flag is true the engine's microphone
\* acquisition has completed successfully.
C25_MonitoringHasMicrophone ==
  isMonitoring => engine = "ready"

\* C26: once monitoring has been stopped and every pending wake-lock request
\* and release has resolved, no screen wake lock is held.  (Here only the
\* monitoring handlers acquire the engine: an acquired engine with the flag
\* off means monitoring was on and has been stopped.)
C26_NoLockAfterStop ==
  (/\ engine = "ready"
   /\ ~isMonitoring
   /\ sentinels.requesting = 0
   /\ sentinels.releasing = 0)
  => sentinels.held = 0

\* C27 as stated: the stop leaves no tick callback scheduled, while
\* monitoring is off no tick emits a detection event, and stop and start
\* keep the last trigger time.
C27_StoppedNothingScheduled ==
  [][/\ ToggleStop => ~loop'
     /\ (~isMonitoring /\ \E d \in Distances : Tick(d)) => ~ev'.emitted
     /\ (ToggleStop \/ ToggleStart) => UNCHANGED lastDetectionTime]_vars

\* C27, amended: while monitoring is off no tick emits a detection event and
\* none changes the history or the last trigger time; the stop cancels the
\* scheduled tick callback, except in App.tsx#2 while a live capture is
\* recording, where the loop keeps running for the capture display until the
\* render that follows the capture; stop and start keep the last trigger
\* time.
C27_StoppedNoEvent ==
  [][/\ (~isMonitoring' /\ loop')
          => (variant = AppV2 /\ (isRecording' \/ RenderOutstanding'))
     /\ (~isMonitoring /\ \E d \in Distances : Tick(d))
          => (~ev'.emitted /\ UNCHANGED <<history, lastDetectionTime>>)
     /\ (ToggleStop \/ ToggleStart) => UNCHANGED lastDetectionTime]_vars

\* Monitoring was stopped after a detection event and no tick callback is
\* scheduled.
C27_StoppedAfterEventReached ==
  /\ ~isMonitoring
  /\ ~loop
  /\ engine = "ready"
  /\ lastDetectionTime > 0
  /\ closure.lastDetectionTime = lastDetectionTime

\* C28: the detection history is ordered newest first and never longer than
\* the cap; an event puts its record in front, and on a full history drops
\* exactly the oldest record, so the count stops growing at the cap.
C28_HistoryCappedNewestFirst ==
  [][/\ Len(history') <= HistoryCap
     /\ \A i \in 1 .. Len(history') : \A j \in i .. Len(history') :
          history'[i].timestamp >= history'[j].timestamp
     /\ ((\E d \in Distances : Tick(d)) /\ ev'.emitted)
          => /\ Len(history') =
                  (IF Len(history) < HistoryCap THEN Len(history) + 1
                   ELSE HistoryCap)
             /\ Tail(history') = SubSeq(history, 1, Len(history') - 1)]_vars

\* An event was added to a full history.
C28_FullHistoryEventReached ==
  /\ Emitted
  /\ ev.kept = HistoryCap
  /\ Len(history) = HistoryCap

\* C29: a capture window is open exactly while the recording flag is set:
\* one pending capture timer per started capture, which fires once, stores
\* the reference and clears the flag; no second window opens while the flag
\* is set.
C29_OneCaptureWindow ==
  Len(timers) = (IF isRecording THEN 1 ELSE 0)

\* C30: in the two-step clear of index.js the history is emptied only by a
\* click on the armed button; a click on the normal button only arms it and
\* starts the 3-second reset timer, the timer sets the step back without
\* touching the history, and a confirmed clear leaves the step normal with
\* no timer pending.
C30_TwoStepClear ==
  [][/\ (HasTwoStepClear(variant) /\ history # <<>> /\ history' = <<>>)
          => (ClearClick /\ deleteStep.rendered = 1)
     /\ (ClearClick /\ deleteStep.rendered = 0)
          => /\ UNCHANGED history
             /\ deleteStep' = [state |-> 1, rendered |-> 1, timer |-> ConfirmMs]
     /\ ClearTimeout
          => /\ UNCHANGED history
             /\ deleteStep'.state = 0
             /\ deleteStep'.timer = 0
     /\ (ClearClick /\ deleteStep.rendered = 1)
          => /\ history' = <<>>
             /\ deleteStep' = NormalStep]_vars

\* A confirmed clear emptied a history that held records.
C30_ConfirmedClearReached ==
  /\ ev.op = "clear"
  /\ HasTwoStepClear(variant)
  /\ ev.armed
  /\ history = <<>>
  /\ deleteStep = NormalStep
  /\ lastDetectionTime > 0

=============================================================================
